---- MODULE Spec2Model ----
(***************************************************************************)
(* Template Runner API gateway: token validation (validate_jwt), the two   *)
(* protected handlers (render_template, run_template), the liveness probe, *)
(* and the logging pipeline (setup_logging, InterceptHandler,              *)
(* LoggingFormatter.format with its regex scrub rules).                    *)
(*                                                                         *)
(* Three specifications share the variables:                               *)
(*   Spec      - the request gateway of application.py                     *)
(*   SpecLog   - the sink configuration of logging_setup.setup_logging     *)
(*   SpecScrub - LoggingFormatter.format as a function of the message      *)
(***************************************************************************)
EXTENDS Integers, Sequences, FiniteSets, TLC

VARIABLES
    \* ---- gateway (application.py)
    env,            \* os.environ: which of JWT_SECRET / JWT_AUDIENCE are set
    pc,             \* position of the request in flight
    op,             \* route of the request in flight
    x_auth_token,   \* the x-auth-token header
    api_request,    \* the request body
    auth,           \* outcome of validate_jwt for the request in flight
    call,           \* what the handler handed to the orchestration engine
    outcome,        \* the (error, result) pair the engine returned
    exc,            \* text of the exception raised inside the handler, if any
    escaped,        \* text of the exception that left the handler, if any
    response,       \* what the handler (or the failed dependency) returned
    served,         \* number of requests answered so far
    \* ---- logging (logging_setup.py)
    lpc,            \* "start" before setup_logging has run, "ready" after
    log_level,      \* LOGURU_LEVEL
    handlers,       \* the sinks registered on the loguru logger
    root_handlers,  \* logging.root.handlers
    written,        \* what has been written to the sinks
    \* ---- LoggingFormatter.format
    record,         \* the loguru record: message and extra[scrubbed]
    passes          \* how many times the record's text went through format

gateway_vars == <<env, pc, op, x_auth_token, api_request, auth, call, outcome,
                  exc, escaped, response, served>>
log_vars == <<lpc, log_level, handlers, root_handlers, written>>
scrub_vars == <<record, passes>>
vars == <<gateway_vars, log_vars, scrub_vars>>

\* ------------------------------------------------------------------ bounds
MaxServed == 2      \* requests answered in one behaviour
MaxEmits == 3       \* log calls in one behaviour
MaxPasses == 2      \* times a text is passed through format

\* ====================================================================
\*                       GATEWAY  (application.py)
\* ====================================================================

None == "None"

\* A token as PyJWT's decode sees it.  form "absent" is Header(None).
Token == [id : {"REAL", "FAKE"}, form : {"jws", "garbage"},
          sig : {"valid", "bad"}, aud : {"match", "other"},
          exp : {"future", "past"}]
NoToken == [id |-> None, form |-> "absent", sig |-> "bad", aud |-> "other",
            exp |-> "future"]
GarbageToken == [id |-> "REAL", form |-> "garbage", sig |-> "bad",
                 aud |-> "other", exp |-> "future"]
\* What a caller may send in the x-auth-token header.
HeaderTokens == {NoToken, GarbageToken}
                \cup {t \in Token : t.id = "REAL" /\ t.form = "jws"}
\* A token a caller embeds in the payload's jwt field.
FakeToken == [id |-> "FAKE", form |-> "jws", sig |-> "valid", aud |-> "match",
              exp |-> "future"]

Envs == [JWT_SECRET : BOOLEAN, JWT_AUDIENCE : BOOLEAN]

TEMPLATE_LOOKUP == "TEMPLATE_LOOKUP"
SSH_PASSTHRU == "SSH_PASSTHRU"

\* Python truthiness of an optional string: None and "" are falsy.
Truthy(s) == s # None /\ s # ""

RunRequests(tok) ==
    [request_type : {TEMPLATE_LOOKUP, SSH_PASSTHRU},
     device_username : {None, "", "admin"},
     device_password : {None, "hunter2"},
     jwt : {NoToken, FakeToken, tok},
     device_list : {<<>>, <<"dev1">>},
     search_criteria : {<<>>, <<"site">>}]

\* A render request has no credential fields.
RenderRequests ==
    [request_type : {None}, device_username : {None}, device_password : {None},
     jwt : {NoToken},
     device_list : {<<>>, <<"dev1">>},
     search_criteria : {<<>>, <<"site">>}]

NoRequest == [request_type |-> None, device_username |-> None,
              device_password |-> None, jwt |-> NoToken,
              device_list |-> <<>>, search_criteria |-> <<>>]

\* ---- the collaborators outside the gateway, as the handler sees them.
\* fault: the step that raises if the handler reaches it.
Faults == {"none", "substitute", "construct", "delegate", "reshape"}
Outcomes == {[err |-> None, result |-> "result"],
             [err |-> "db unreachable", result |-> None],
             [err |-> "db unreachable", result |-> "partial"]}
Worlds == [fault : Faults, outcome : Outcomes]
NoOutcome == [err |-> None, result |-> None]

NoCall == [made |-> FALSE, request |-> NoRequest]
NoResponse == [kind |-> "none", payload |-> <<>>, code |-> 0]
NoAuth == [code |-> 0, detail |-> <<>>]

UnexpectedMsg == "An unexpected exception occured calling the template runner: "

\* ---- jwt.decode as called at application.py:67, after str.encode
Decode(token) ==
    IF token.form = "absent" THEN "TypeError"
    ELSE IF token.form = "garbage" THEN "DecodeError"
    ELSE IF token.sig # "valid" THEN "InvalidSignatureError"
    ELSE IF token.exp = "past" THEN "ExpiredSignatureError"
    ELSE IF token.aud # "match" THEN "InvalidAudienceError"
    ELSE None

\* what the try block of validate_jwt raises (None: nothing)
ValidateRaises(token, e) ==
    IF ~e.JWT_SECRET THEN "KeyError"
    ELSE IF ~e.JWT_AUDIENCE THEN "KeyError"
    ELSE Decode(token)

\* mutant: the generic handler comes first and swallows the expiry error
validate_jwt_generic_first(token, e) ==
    LET r == ValidateRaises(token, e)
    IN  IF r = None THEN [code |-> 200, detail |-> <<>>]
        ELSE [code |-> 401, detail |-> <<"Unauthorized user: ", r>>]

validate_jwt(token, e) ==
    LET r == ValidateRaises(token, e)
    IN  IF r = None THEN [code |-> 200, detail |-> <<>>]
        ELSE IF r = "ExpiredSignatureError"
             THEN [code |-> 403, detail |-> <<"JWT has expired ", r>>]
        ELSE [code |-> 401, detail |-> <<"Unauthorized user: ", r>>]

\* mutant: render-template registered without the dependency
DependenciesRunOnly(route) ==
    IF route = "run-template" THEN {"validate_jwt"} ELSE {}

\* dependencies=[Depends(validate_jwt)] of the route decorators
Dependencies(route) ==
    IF route \in {"render-template", "run-template"} THEN {"validate_jwt"}
    ELSE {}

Routes == {"health", "render-template", "run-template"}

HandlerResult(resp, c, out, raisedIn, left) ==
    [response |-> resp, call |-> c, outcome |-> out, exc |-> raisedIn,
     escaped |-> left]

ErrorTuple(text) ==
    [kind |-> "error", payload |-> <<UnexpectedMsg, text>>, code |-> 500]

\* mutant: the service is constructed before the try block
render_template_construct_outside(req, tok, w) ==
    IF w.fault = "construct"
    THEN HandlerResult(NoResponse, NoCall, NoOutcome, "construct", "construct")
    ELSE IF w.fault = "delegate"
    THEN HandlerResult(ErrorTuple("delegate"), [made |-> TRUE, request |-> req],
                       NoOutcome, "delegate", None)
    ELSE HandlerResult([kind |-> "result", payload |-> <<w.outcome.result>>,
                        code |-> 200],
                       [made |-> TRUE, request |-> req], w.outcome, None, None)

\* render_template: the whole body is inside try / except Exception
render_template(req, tok, w) ==
    IF w.fault = "construct"
    THEN HandlerResult(ErrorTuple("construct"), NoCall, NoOutcome,
                       "construct", None)
    ELSE IF w.fault = "delegate"
    THEN HandlerResult(ErrorTuple("delegate"), [made |-> TRUE, request |-> req],
                       NoOutcome, "delegate", None)
    ELSE \* _err is bound and never read: api_result is returned as it is
         HandlerResult([kind |-> "result", payload |-> <<w.outcome.result>>,
                        code |-> 200],
                       [made |-> TRUE, request |-> req], w.outcome, None, None)

\* mutant: the header token only fills in a missing payload jwt
ForwardedIfMissing(req, tok) ==
    IF req.jwt = NoToken THEN [req EXCEPT !.jwt = tok] ELSE req

\* mutant: the header token is always substituted
ForwardedAlways(req, tok) == [req EXCEPT !.jwt = tok]

\* the credential substitution at the head of run_template
Forwarded(req, tok) ==
    IF req.request_type = TEMPLATE_LOOKUP THEN [req EXCEPT !.jwt = tok]
    ELSE IF ~Truthy(req.device_username) THEN [req EXCEPT !.jwt = tok]
    ELSE req

\* whether the substitution assigns api_request.jwt at all
Assigns(req) ==
    req.request_type = TEMPLATE_LOOKUP \/ ~Truthy(req.device_username)

run_template(req, tok, w) ==
    LET fwd == Forwarded(req, tok)
        made == [made |-> TRUE, request |-> fwd]
    IN  IF w.fault = "substitute" /\ Assigns(req)
        THEN HandlerResult(ErrorTuple("substitute"), NoCall, NoOutcome,
                           "substitute", None)
        ELSE IF w.fault = "construct"
        THEN HandlerResult(ErrorTuple("construct"), NoCall, NoOutcome,
                           "construct", None)
        ELSE IF w.fault = "delegate"
        THEN HandlerResult(ErrorTuple("delegate"), made, NoOutcome,
                           "delegate", None)
        ELSE IF Truthy(w.outcome.err)
        THEN HandlerResult([kind |-> "error", payload |-> <<w.outcome.err>>,
                            code |-> 500], made, w.outcome, None, None)
        ELSE IF w.fault = "reshape"
        THEN HandlerResult(ErrorTuple("reshape"), made, w.outcome,
                           "reshape", None)
        ELSE HandlerResult([kind |-> "result",
                            payload |-> <<w.outcome.result>>, code |-> 200],
                           made, w.outcome, None, None)

health_check == [kind |-> "result", payload |-> <<"OK">>, code |-> 200]

\* ---- actions of the gateway

GatewayIdle ==
    /\ pc = "idle" /\ op = None /\ x_auth_token = NoToken
    /\ api_request = NoRequest /\ auth = NoAuth /\ call = NoCall
    /\ outcome = NoOutcome /\ exc = None /\ escaped = None
    /\ response = NoResponse /\ served = 0

GatewayInit == env \in Envs /\ GatewayIdle

\* a request arrives and is routed
ReceiveRequest ==
    /\ pc = "idle" /\ served < MaxServed
    /\ \E route \in Routes, tok \in HeaderTokens :
         \E req \in (IF route = "run-template" THEN RunRequests(tok)
                     ELSE IF route = "render-template" THEN RenderRequests
                     ELSE {NoRequest}) :
            /\ op' = route
            /\ x_auth_token' = tok
            /\ api_request' = req
            /\ pc' = IF "validate_jwt" \in Dependencies(route) THEN "auth"
                     ELSE "handler"
    /\ auth' = NoAuth /\ call' = NoCall /\ outcome' = NoOutcome
    /\ exc' = None /\ escaped' = None /\ response' = NoResponse
    /\ UNCHANGED <<env, served, log_vars, scrub_vars>>

\* the dependency runs; an HTTPException ends the request
ValidateJwt ==
    /\ pc = "auth"
    /\ auth' = validate_jwt(x_auth_token, env)
    /\ IF auth'.code = 200
       THEN pc' = "handler" /\ response' = response
       ELSE /\ pc' = "done"
            /\ response' = [kind |-> "http_exception",
                            payload |-> auth'.detail, code |-> auth'.code]
    /\ UNCHANGED <<env, op, x_auth_token, api_request, call, outcome, exc,
                   escaped, served, log_vars, scrub_vars>>

HealthCheck ==
    /\ pc = "handler" /\ op = "health"
    /\ response' = health_check
    /\ pc' = "done"
    /\ UNCHANGED <<env, op, x_auth_token, api_request, auth, call, outcome,
                   exc, escaped, served, log_vars, scrub_vars>>

Handle(r) ==
    /\ response' = r.response
    /\ call' = r.call
    /\ outcome' = r.outcome
    /\ exc' = r.exc
    /\ escaped' = r.escaped
    /\ pc' = "done"
    /\ UNCHANGED <<env, op, x_auth_token, api_request, auth, served,
                   log_vars, scrub_vars>>

RenderTemplate ==
    /\ pc = "handler" /\ op = "render-template"
    /\ \E w \in Worlds : Handle(render_template(api_request, x_auth_token, w))

RunTemplate ==
    /\ pc = "handler" /\ op = "run-template"
    /\ \E w \in Worlds : Handle(run_template(api_request, x_auth_token, w))

\* the response is sent and the request is gone: nothing of it is kept
SendResponse ==
    /\ pc = "done"
    /\ pc' = "idle"
    /\ served' = served + 1
    /\ op' = None /\ x_auth_token' = NoToken /\ api_request' = NoRequest
    /\ auth' = NoAuth /\ call' = NoCall /\ outcome' = NoOutcome
    /\ exc' = None /\ escaped' = None /\ response' = NoResponse
    /\ UNCHANGED <<env, log_vars, scrub_vars>>

\* ====================================================================
\*               REDACTION  (logging_setup.LoggingFormatter)
\* ====================================================================
\* A text is a sequence of one-character strings.

PASSWORD == <<"p", "a", "s", "s", "w", "o", "r", "d">>
SECRET == <<"s", "e", "c", "r", "e", "t">>
JWT == <<"j", "w", "t">>
ST2_API_KEY == <<"s", "t", "2", "_", "a", "p", "i", "_", "k", "e", "y">>
REDIS_PASSWORD == <<"r", "e", "d", "i", "s", "_", "p", "a", "s", "s", "w", "o", "r", "d">>
REDACTED == <<"[", "R", "E", "D", "A", "C", "T", "E", "D", "]">>
SCHEME == <<":", "/", "/">>

\* [a-zA-Z0-9_], the complement of \W
WordChars ==
    {"a", "b", "c", "d", "e", "f", "g", "h", "i", "j", "k", "l", "m", "n",
     "o", "p", "q", "r", "s", "t", "u", "v", "w", "x", "y", "z",
     "A", "B", "C", "D", "E", "F", "G", "H", "I", "J", "K", "L", "M", "N",
     "O", "P", "Q", "R", "S", "T", "U", "V", "W", "X", "Y", "Z",
     "0", "1", "2", "3", "4", "5", "6", "7", "8", "9", "_"}

\* the character class ['|\"]
QuoteClass == {"'", "|", "\""}

\* the key rules of scrub_patterns, in dict order, after the URL rule
KeyRules == <<PASSWORD, SECRET, JWT, ST2_API_KEY, REDIS_PASSWORD>>

\* the replacement of a key rule: 'key': '[REDACTED]'
KeyReplacement(key) == <<"'">> \o key \o <<"'", ":", " ", "'">> \o REDACTED \o <<"'">>
\* the replacement of the URL rule: ://[REDACTED]@
UrlReplacement == SCHEME \o REDACTED \o <<"@">>

\* (.*?) followed by one of `stops`: the index of the first stop at or after
\* e that no newline precedes ("." does not match a newline); 0 if none
RECURSIVE LazyTo(_, _, _)
LazyTo(s, e, stops) ==
    IF e > Len(s) THEN 0
    ELSE IF s[e] \in stops THEN e
    ELSE IF s[e] = "\n" THEN 0
    ELSE LazyTo(s, e + 1, stops)

\* the end of the run of \W characters that starts at j (first index past it)
RECURSIVE RunEnd(_, _)
RunEnd(s, j) ==
    IF j > Len(s) \/ s[j] \in WordChars THEN j ELSE RunEnd(s, j + 1)

\* \W+ is greedy and gives back one character at a time: the opening quote
\* is tried at q, q-1, ... down to j+1 (at least one character stays in \W+).
\* Returns the index after the closing quote, 0 if no split matches.
RECURSIVE QuoteBacktrack(_, _, _)
QuoteBacktrack(s, j, q) ==
    IF q <= j THEN 0
    ELSE IF s[q] \in QuoteClass /\ LazyTo(s, q + 1, QuoteClass) > 0
         THEN LazyTo(s, q + 1, QuoteClass) + 1
    ELSE QuoteBacktrack(s, j, q - 1)

\* .key.:\W+['|"](.*?)['|"] tried at index i: index after the match, 0 if none
MatchKey(key, s, i) ==
    LET p == i + 1 + Len(key)
    IN  IF p + 1 > Len(s) THEN 0
        ELSE IF \/ s[i] = "\n"
                \/ SubSeq(s, i + 1, p - 1) # key
                \/ s[p] = "\n"
                \/ s[p + 1] # ":"
             THEN 0
        ELSE QuoteBacktrack(s, p + 2, RunEnd(s, p + 2) - 1)

\* :\/\/(.*?)\@ tried at index i: index after the match, 0 if none
MatchUrl(s, i) ==
    IF i + 2 > Len(s) \/ SubSeq(s, i, i + 2) # SCHEME THEN 0
    ELSE IF LazyTo(s, i + 3, {"@"}) = 0 THEN 0
    ELSE LazyTo(s, i + 3, {"@"}) + 1

\* re.sub: leftmost matches, left to right, never overlapping
RECURSIVE SubKeyFrom(_, _, _)
SubKeyFrom(key, s, i) ==
    IF i > Len(s) THEN <<>>
    ELSE LET e == MatchKey(key, s, i)
         IN  IF e > 0 THEN KeyReplacement(key) \o SubKeyFrom(key, s, e)
             ELSE <<s[i]>> \o SubKeyFrom(key, s, i + 1)

RECURSIVE SubUrlFrom(_, _)
SubUrlFrom(s, i) ==
    IF i > Len(s) THEN <<>>
    ELSE LET e == MatchUrl(s, i)
         IN  IF e > 0 THEN UrlReplacement \o SubUrlFrom(s, e)
             ELSE <<s[i]>> \o SubUrlFrom(s, i + 1)

RECURSIVE ApplyKeyRules(_, _)
ApplyKeyRules(s, k) ==
    IF k > Len(KeyRules) THEN s
    ELSE ApplyKeyRules(SubKeyFrom(KeyRules[k], s, 1), k + 1)

\* the loop over scrub_patterns.items()
Scrub(s) == ApplyKeyRules(SubUrlFrom(s, 1), 1)

\* json.dumps of a one-entry dict of plain strings: {"key": "value"}
json_dumps(m) ==
    <<"{", "\"">> \o m.key \o <<"\"", ":", " ", "\"">> \o m.value \o <<"\"", "}">>

\* a message is a str or a dict
StrMessage(t) == [type |-> "str", text |-> t, key |-> <<>>, value |-> <<>>]
DictMessage(k, v) == [type |-> "dict", text |-> <<>>, key |-> k, value |-> v]

\* LoggingFormatter.format: the value stored in record["extra"]["scrubbed"]
format(m) ==
    Scrub(IF m.type = "dict" THEN json_dumps(m) ELSE m.text)

\* ---- inputs of the redaction: texts a call site may log
ABC123 == <<"a", "b", "c", "1", "2", "3">>
Quoted(q, t) == <<q>> \o t \o <<q>>
KeyField(q, key) == Quoted(q, key) \o <<":">>

Prefixes == {<<>>, SCHEME, <<"{">>}
KeyParts == {KeyField(q, k) : q \in {"'", "\""},
                              k \in {PASSWORD, SECRET, REDIS_PASSWORD}}
Gaps == {<<>>, <<" ">>, <<" ", " ">>, <<"\t">>, <<"\n">>}
ValueParts == {Quoted("\"", ABC123), Quoted("'", ABC123),
               KeyField("\"", PASSWORD), KeyField("\"", JWT)}
Suffixes == {<<>>, <<"@">>, <<"}">>}

Texts == {a \o k \o g \o v \o z : a \in Prefixes, k \in KeyParts, g \in Gaps,
                                  v \in ValueParts, z \in Suffixes}
Messages == {StrMessage(t) : t \in Texts}
            \cup {DictMessage(k, ABC123) : k \in {PASSWORD, SECRET, <<"u", "s", "e", "r">>}}

NoRecord == [message |-> StrMessage(<<>>), scrubbed |-> <<>>, formatted |-> FALSE]

ScrubIdle == record = NoRecord /\ passes = 0

ScrubInit ==
    /\ record \in {[message |-> m, scrubbed |-> <<>>, formatted |-> FALSE] :
                     m \in Messages}
    /\ passes = 0

\* the sink asks the formatter for the record's format string
Format ==
    /\ ~record.formatted
    /\ record' = [record EXCEPT !.scrubbed = format(record.message),
                                !.formatted = TRUE]
    /\ passes' = passes + 1
    /\ UNCHANGED <<gateway_vars, log_vars>>

\* the line that was written is logged again as a new message
Relog ==
    /\ record.formatted /\ passes < MaxPasses
    /\ record' = [message |-> StrMessage(record.scrubbed), scrubbed |-> <<>>,
                  formatted |-> FALSE]
    /\ UNCHANGED <<passes, gateway_vars, log_vars>>

ScrubNext == Format \/ Relog

\* ====================================================================
\*                  SINKS  (logging_setup.setup_logging)
\* ====================================================================

LevelNo(l) ==
    CASE l = "DEBUG" -> 10 [] l = "INFO" -> 20 [] l = "WARNING" -> 30
      [] l = "ERROR" -> 40

Levels == {"DEBUG", "INFO", "ERROR"}

\* the handler loguru installs at import: stderr, its own format
DefaultHandler == [sink |-> "stderr", fmt |-> "default", level |-> "DEBUG",
                   backtrace |-> TRUE]

\* logger.remove() with no id removes every handler
LoguruRemove(hs) == <<>>
\* logger.add(...)
LoguruAdd(hs, h) == Append(hs, h)
\* logger.configure(handlers=[...]): every handler is removed, then each of
\* the given ones is added with add()'s defaults for what it leaves out
LoguruConfigure(hs, new) == new

\* the handler of the logger.add call in setup_logging
ScrubbedHandler(level) ==
    [sink |-> "stderr", fmt |-> "LoggingFormatter.format", level |-> level,
     backtrace |-> (level = "DEBUG")]

\* the handler of logger.configure(handlers=[{"sink": sys.stdout, ...}])
StdoutHandler == [sink |-> "stdout", fmt |-> "default", level |-> "DEBUG",
                  backtrace |-> TRUE]

\* the handlers left on the logger when setup_logging returns
setup_logging(hs, level) ==
    LoguruConfigure(LoguruAdd(LoguruRemove(hs), ScrubbedHandler(level)),
                    <<StdoutHandler>>)

\* the text a handler writes for a message
Render(h, m) ==
    IF h.fmt = "LoggingFormatter.format" THEN format(m)
    ELSE IF m.type = "dict" THEN json_dumps(m) ELSE m.text

\* what the handlers from index i on write for a message at a level
RECURSIVE Emit(_, _, _, _)
Emit(hs, i, lvl, m) ==
    IF i > Len(hs) THEN <<>>
    ELSE (IF LevelNo(lvl) >= LevelNo(hs[i].level)
          THEN <<[sink |-> hs[i].sink, text |-> Render(hs[i], m),
                  message |-> m, after_setup |-> (lpc = "ready")]>>
          ELSE <<>>) \o Emit(hs, i + 1, lvl, m)

\* the messages logged in the sink model: a harmless line, and the dict
\* that application.py logs right after setup_logging
LogMessages == {StrMessage(<<"o", "k">>), DictMessage(PASSWORD, SECRET),
                StrMessage(KeyField("'", JWT) \o <<" ">> \o Quoted("'", ABC123))}

LogIdle ==
    /\ lpc = "start" /\ log_level = "INFO" /\ handlers = <<DefaultHandler>>
    /\ root_handlers = <<>> /\ written = <<>>

LogInit ==
    /\ lpc = "start" /\ log_level \in Levels /\ handlers = <<DefaultHandler>>
    /\ root_handlers = <<>> /\ written = <<>>

SetupLogging ==
    /\ lpc = "start"
    /\ handlers' = setup_logging(handlers, log_level)
    /\ root_handlers' = <<"InterceptHandler">>
    /\ lpc' = "ready"
    /\ UNCHANGED <<log_level, written, gateway_vars, scrub_vars>>

\* a direct loguru call: logger.info(...), logger.error(...)
LoggerCall ==
    /\ Len(written) < MaxEmits
    /\ \E lvl \in Levels, m \in LogMessages :
         written' = written \o Emit(handlers, 1, lvl, m)
    /\ UNCHANGED <<lpc, log_level, handlers, root_handlers, gateway_vars,
                   scrub_vars>>

\* a standard-logging record reaching the root logger: InterceptHandler.emit
\* re-emits it through loguru; with no root handler it is not re-emitted
StdLoggingCall ==
    /\ Len(written) < MaxEmits
    /\ \E lvl \in Levels, m \in {x \in LogMessages : x.type = "str"} :
         written' = IF root_handlers = <<"InterceptHandler">>
                       /\ LevelNo(lvl) >= LevelNo(log_level)
                    THEN written \o Emit(handlers, 1, lvl, m)
                    ELSE written
    /\ UNCHANGED <<lpc, log_level, handlers, root_handlers, gateway_vars,
                   scrub_vars>>

LogNext == SetupLogging \/ LoggerCall \/ StdLoggingCall

\* ====================================================================
\*                         SPECIFICATIONS
\* ====================================================================

Init == GatewayInit /\ LogIdle /\ ScrubIdle
Next ==
    \/ ReceiveRequest
    \/ ValidateJwt
    \/ HealthCheck
    \/ RenderTemplate
    \/ RunTemplate
    \/ SendResponse
Spec == Init /\ [][Next]_vars

InitLog == env = [JWT_SECRET |-> TRUE, JWT_AUDIENCE |-> TRUE] /\ GatewayIdle
           /\ LogInit /\ ScrubIdle
SpecLog == InitLog /\ [][LogNext]_vars

InitScrub == env = [JWT_SECRET |-> TRUE, JWT_AUDIENCE |-> TRUE] /\ GatewayIdle
             /\ LogIdle /\ ScrubInit
SpecScrub == InitScrub /\ [][ScrubNext]_vars

\* ====================================================================
\*                            PROPERTIES
\* ====================================================================

Protected == {"render-template", "run-template"}

\* the header token can be verified at all: both settings are in the
\* environment, the token parses and its signature is good
Verifiable ==
    /\ env.JWT_SECRET /\ env.JWT_AUDIENCE
    /\ x_auth_token.form = "jws" /\ x_auth_token.sig = "valid"

RECURSIVE ContainsFrom(_, _, _)
ContainsFrom(s, sub, i) ==
    IF i + Len(sub) - 1 > Len(s) THEN FALSE
    ELSE IF SubSeq(s, i, i + Len(sub) - 1) = sub THEN TRUE
    ELSE ContainsFrom(s, sub, i + 1)
Contains(s, sub) == ContainsFrom(s, sub, 1)

\* the text that format scrubs for a message
Serialized(m) == IF m.type = "dict" THEN json_dumps(m) ELSE m.text

\* the text holds the key password, quoted, then a colon, whitespace
\* (possibly none) and the quoted value abc123
HasPasswordPair(t) ==
    \E kq \in {"'", "\""}, vq \in {"'", "\""}, g \in Gaps :
        Contains(t, KeyField(kq, PASSWORD) \o g \o Quoted(vq, ABC123))

\* C1: the orchestration engine is called for a request to a protected
\* operation only after validate_jwt returned without raising for that same
\* request; when validate_jwt raises, the request ends there with the
\* HTTPException and the engine is never called for it.
C1_EngineOnlyAfterAuth ==
    /\ call.made => (op \in Protected /\ auth.code = 200)
    /\ (pc = "handler" /\ op \in Protected) => auth.code = 200
    /\ auth.code \in {401, 403} =>
          (~call.made /\ pc = "done" /\ response.kind = "http_exception")

C1_Witness ==
    op = "render-template" /\ pc = "done" /\ call.made /\ auth.code = 200

\* C2 (as amended): validate_jwt has exactly three outcomes.  It returns
\* without raising exactly when both settings are in the environment and the
\* token is well formed, correctly signed, not expired and has the expected
\* audience.  It raises 403, with the expiry error in the message, exactly
\* when both settings are in the environment and the token is well formed,
\* correctly signed and past expiry (whatever its audience).  In every other
\* case, an expired token that cannot be verified included, it raises 401.
C2_ValidateOutcomes ==
    auth.code # 0 =>
      /\ auth.code \in {200, 401, 403}
      /\ auth.code = 200 <=> (Verifiable /\ x_auth_token.exp = "future"
                                /\ x_auth_token.aud = "match")
      /\ auth.code = 403 <=> (Verifiable /\ x_auth_token.exp = "past")
      /\ auth.code = 403 =>
            auth.detail = <<"JWT has expired ", "ExpiredSignatureError">>

C2_Witness ==
    /\ auth.code = 403 /\ Verifiable /\ x_auth_token.exp = "past"
    /\ x_auth_token.aud = "other"

\* C2 (as stated): every token past expiry raises 403; a token with a valid
\* signature, matching audience and not expired returns without raising;
\* every other failure raises 401.
C2_ExpiredAlways403 ==
    auth.code # 0 =>
      /\ auth.code \in {200, 401, 403}
      /\ (x_auth_token.form = "jws" /\ x_auth_token.exp = "past")
            => auth.code = 403
      /\ auth.code = 200 <=> (Verifiable /\ x_auth_token.exp = "future"
                                /\ x_auth_token.aud = "match")

\* C3: for a run-template request of type TEMPLATE_LOOKUP, the jwt of the
\* request handed to service.run_templates is the x-auth-token header,
\* whatever the payload's own jwt and device_username are.
C3_LookupForwardsSession ==
    (call.made /\ op = "run-template"
       /\ api_request.request_type = TEMPLATE_LOOKUP)
      => call.request.jwt = x_auth_token

C3_Witness ==
    /\ call.made /\ op = "run-template"
    /\ api_request.request_type = TEMPLATE_LOOKUP
    /\ api_request.jwt = FakeToken /\ api_request.device_username = "admin"
    /\ call.request.jwt = x_auth_token /\ x_auth_token.id = "REAL"

\* C4: for a run-template request of another type than TEMPLATE_LOOKUP, the
\* forwarded jwt is the header token when device_username is absent or
\* empty; when device_username is present the request is forwarded as it
\* came (its own jwt, device_username and device_password).
C4_DirectCommandForwarding ==
    (call.made /\ op = "run-template"
       /\ api_request.request_type # TEMPLATE_LOOKUP)
      => IF Truthy(api_request.device_username)
         THEN call.request = api_request
         ELSE call.request.jwt = x_auth_token

C4_Witness ==
    /\ call.made /\ op = "run-template"
    /\ api_request.request_type = SSH_PASSTHRU
    /\ api_request.device_username = "admin"
    /\ api_request.jwt = FakeToken /\ call.request.jwt = FakeToken

\* C5: in render, when the engine returns an outcome with error set, the
\* response is an error envelope whose payload is the stringified error;
\* the result is passed through only when error is unset.
C5_RenderErrorEnvelope ==
    (pc = "done" /\ op = "render-template" /\ call.made /\ exc = None)
      => IF Truthy(outcome.err)
         THEN response.kind = "error" /\ response.payload = <<outcome.err>>
         ELSE response.kind = "result"
                /\ response.payload = <<outcome.result>>

\* C6: a render or run request with an empty device_list and an empty
\* search_criteria is answered with an error and never reaches the engine.
C6_EmptyTargetsRejected ==
    (pc = "done" /\ op \in Protected /\ auth.code = 200
       /\ api_request.device_list = <<>> /\ api_request.search_criteria = <<>>)
      => (~call.made /\ response.kind = "error")

\* C7: whatever raises while render_template or run_template handles an
\* authenticated request (service construction, delegation, credential
\* substitution, reshaping of the result), the handler returns the error
\* tuple (text of the exception, 500) and no exception leaves it.
C7_NoExceptionLeaves ==
    (pc = "done" /\ op \in Protected /\ auth.code = 200)
      => /\ escaped = None
         /\ exc # None => response = [kind |-> "error",
                                      payload |-> <<UnexpectedMsg, exc>>,
                                      code |-> 500]

C7_Witness ==
    /\ pc = "done" /\ op = "render-template" /\ exc = "construct"
    /\ response.kind = "error" /\ response.code = 500 /\ escaped = None

\* C8: once setup_logging has returned, every sink on the logger formats
\* through LoggingFormatter.format, and every line written afterwards is
\* the scrubbed text of its message.
C8_EverySinkRedacts ==
    lpc = "ready" =>
      /\ Len(handlers) > 0
      /\ \A i \in 1..Len(handlers) : handlers[i].fmt = "LoggingFormatter.format"
      /\ \A i \in 1..Len(written) :
            written[i].after_setup => written[i].text = format(written[i].message)

\* C9: when the message holds the key password with the quoted value
\* abc123 (either quote style, any whitespace or none after the colon),
\* extra[scrubbed] does not contain abc123.
C9_PasswordValueRedacted ==
    (record.formatted /\ passes = 1
       /\ HasPasswordPair(Serialized(record.message)))
      => ~Contains(record.scrubbed, ABC123)

\* C10: scrubbing an already scrubbed text changes nothing:
\* scrub(scrub(m)) = scrub(m).
C10_ScrubIdempotent ==
    (record.formatted /\ passes = MaxPasses)
      => record.scrubbed = record.message.text

====
